---- MODULE Spec2Model ----
(***************************************************************************)
(* A model of package interceptor (src/interceptor.go): the Pipeline, its  *)
(* Use and RoundTrip methods, and the BaseURL and Header interceptors,     *)
(* together with the parts of net/url, path and net/textproto they call.   *)
(*                                                                         *)
(* Strings with structure are modelled by what the code does to them:      *)
(*   - a URL path is the sequence strings.Split(path, "/") of its          *)
(*     segments, so "" is <<"">>, "/" is <<"", "">>, "/a/b" is             *)
(*     <<"", "a", "b">> and "a/" is <<"a", "">>; the string s + "/" + t    *)
(*     is then s \o t;                                                     *)
(*   - a header name is the sequence of its characters.                    *)
(***************************************************************************)
EXTENDS Naturals, Sequences, FiniteSets

VARIABLES
    interceptors,   \* Pipeline.interceptors
    Transport,      \* Pipeline.Transport: "nil" or "mock"
    calls,          \* history: the argument list of every Use call so far
    pc,             \* where the RoundTrip in progress stands
    i,              \* the loop index of RoundTrip's wrapping loop
    chain,          \* the wrapped transport built so far, outermost link first
    depth,          \* how many links of the chain the request has entered
    req,            \* the request (*http.Request: mutated in place)
    orig,           \* history: the request as RoundTrip received it
    atStart,        \* history: Pipeline.interceptors when RoundTrip was invoked
    sent,           \* history: each call of the terminal transport, as
                    \*   [req: the request it received, out: what it returned]
    outcome,        \* what the callee returned to the link at `depth`
    result,         \* what RoundTrip returned to its caller
    log             \* the shared log of the logging interceptors and the terminal

vars == <<interceptors, Transport, calls, pc, i, chain, depth, req, orig,
          atStart, sent, outcome, result, log>>

(***************************************************************************)
(* Bounds of the model.                                                    *)
(***************************************************************************)
MaxInterceptors == 3    \* longest Pipeline.interceptors
MaxBatch == 2           \* most arguments of one Use call
MaxPathLen == 3         \* most "/" in a request path
MaxKeyLen == 3          \* longest header name

(***************************************************************************)
(* Sequences.                                                              *)
(***************************************************************************)
SeqsUpTo(S, n) == UNION {[1..k -> S] : k \in 0..n}

Last(s) == s[Len(s)]

Front(s) == SubSeq(s, 1, Len(s) - 1)

RECURSIVE Flatten(_)
Flatten(ss) == IF ss = <<>> THEN <<>> ELSE Head(ss) \o Flatten(Tail(ss))

(***************************************************************************)
(* net/url and path, as far as BaseURL uses them.  A path is the sequence  *)
(* of its "/"-separated segments.  The segments of the model are plain     *)
(* names, "", "." and "..", which escaping leaves alone, and "%zz", a      *)
(* decoded segment holding a '%' that no two hex digits follow (its        *)
(* escaped form is "%25zz").  With these segments URL.RawPath is always    *)
(* "" (setPath clears it when the default encoding is used), and the URLs  *)
(* of the model have no User, no Opaque and no ForceQuery.                 *)
(***************************************************************************)
EmptyPath == <<"">>

\* strings.HasPrefix(p, "/")
HasSlashPrefix(p) == Len(p) >= 2 /\ p[1] = ""

\* strings.HasSuffix(p, "/")
HasSlashSuffix(p) == Len(p) >= 2 /\ Last(p) = ""

\* url.escape(s, encodePath), segment by segment
EscapeSeg(seg) == IF seg = "%zz" THEN "%25zz" ELSE seg

Escape(p) == [k \in 1..Len(p) |-> EscapeSeg(p[k])]

\* url.unescape(s, encodePath): fails on a '%' that two hex digits do not follow
UnescapeFails(p) == \E k \in 1..Len(p) : p[k] = "%zz"

UnescapeSeg(seg) == IF seg = "%25zz" THEN "%zz" ELSE seg

Unescape(p) == [k \in 1..Len(p) |-> UnescapeSeg(p[k])]

\* (*URL).EscapedPath with RawPath = ""
EscapedPath(u) == Escape(u.Path)

\* (*URL).setPath; its callers here ignore the error, which leaves u as it was
SetPath(u, p) == IF UnescapeFails(p) THEN u ELSE [u EXCEPT !.Path = Unescape(p)]

RECURSIVE CleanLoop(_, _, _, _)
\* The loop of path.Clean: out is the elements written so far, dotdot how many
\* of them are leading ".." elements that cannot be backtracked over.
CleanLoop(p, out, dotdot, rooted) ==
    IF p = <<>> THEN out
    ELSE LET e == Head(p) IN
         IF e = "" \/ e = "." THEN CleanLoop(Tail(p), out, dotdot, rooted)
         ELSE IF e = ".." THEN
              IF Len(out) > dotdot THEN CleanLoop(Tail(p), Front(out), dotdot, rooted)
              ELSE IF ~rooted THEN CleanLoop(Tail(p), out \o <<"..">>, dotdot + 1, rooted)
              ELSE CleanLoop(Tail(p), out, dotdot, rooted)
         ELSE CleanLoop(Tail(p), out \o <<e>>, dotdot, rooted)

\* path.Clean
Clean(p) ==
    IF p = EmptyPath THEN <<".">>
    ELSE LET rooted == HasSlashPrefix(p)
             out == CleanLoop(p, <<>>, 0, rooted)
         IN IF rooted THEN (IF out = <<>> THEN <<"", "">> ELSE <<"">> \o out)
            ELSE (IF out = <<>> THEN <<".">> ELSE out)

\* path.Join of two elements
Join(a, b) ==
    IF a = EmptyPath /\ b = EmptyPath THEN EmptyPath
    ELSE IF a = EmptyPath THEN Clean(b)
    ELSE Clean(a \o b)

\* (*URL).JoinPath(elem) for one element
JoinPath(u, elem) ==
    LET e0 == EscapedPath(u)
        p0 == IF ~HasSlashPrefix(e0)
              THEN Tail(Join(<<"">> \o e0, elem))
              ELSE Join(e0, elem)
        p  == IF HasSlashSuffix(elem) /\ ~HasSlashSuffix(p0) THEN p0 \o <<"">> ELSE p0
    IN SetPath(u, p)

RECURSIVE RemoveDots(_, _, _)
\* The loop of url.resolvePath over the elements of full: dst is the string
\* written so far (it starts as "/").  Yields <<dst, last element>>.
RemoveDots(full, dst, first) ==
    LET elem == Head(full)
        rest == Tail(full)
        str  == Tail(dst)
        next ==
            IF elem = "." THEN <<dst, FALSE>>
            ELSE IF elem = ".." THEN
                 IF Len(str) = 1 THEN <<<<"", "">>, TRUE>>
                 ELSE <<<<"">> \o Front(str), first>>
            ELSE IF ~first THEN <<dst \o <<elem>>, FALSE>>
            ELSE <<Front(dst) \o <<elem>>, FALSE>>
    IN IF rest = <<>> THEN <<next[1], elem>>
       ELSE RemoveDots(rest, next[1], next[2])

\* url.resolvePath
resolvePath(base, ref) ==
    LET full == IF ref = EmptyPath THEN base
                ELSE IF ~HasSlashPrefix(ref) THEN Front(base) \o ref
                ELSE ref
    IN IF full = EmptyPath THEN EmptyPath
       ELSE LET done == RemoveDots(full, <<"", "">>, TRUE)
                dst  == IF done[2] = "." \/ done[2] = ".."
                        THEN done[1] \o <<"">> ELSE done[1]
            IN IF Len(dst) >= 3 /\ dst[2] = "" THEN Tail(dst) ELSE dst

\* (*URL).ResolveReference
ResolveReference(u, ref) ==
    LET url0 == IF ref.Scheme = "" THEN [ref EXCEPT !.Scheme = u.Scheme] ELSE ref
    IN IF ref.Scheme # "" \/ ref.Host # ""
       THEN SetPath(url0, resolvePath(EscapedPath(ref), EmptyPath))
       ELSE LET url1 == IF ref.Path = EmptyPath /\ ref.RawQuery = ""
                        THEN [url0 EXCEPT !.RawQuery = u.RawQuery,
                                          !.Fragment = IF ref.Fragment = ""
                                                       THEN u.Fragment ELSE @]
                        ELSE url0
            IN SetPath([url1 EXCEPT !.Host = u.Host],
                       resolvePath(EscapedPath(u), EscapedPath(ref)))

(***************************************************************************)
(* net/http and net/textproto, as far as Header uses them.  A header name  *)
(* is the sequence of its characters; the names of the model are made of   *)
(* the token characters "a", "A" and "-".  An http.Header maps the names   *)
(* it holds to their lists of values.                                      *)
(***************************************************************************)
KeyChars == {"a", "A", "-"}

ToUpper(c) == IF c = "a" THEN "A" ELSE c

ToLower(c) == IF c = "A" THEN "a" ELSE c

RECURSIVE CanonLoop(_, _)
\* The loop of textproto.canonicalMIMEHeaderKey: upper says whether the next
\* character starts a word.
CanonLoop(a, upper) ==
    IF a = <<>> THEN <<>>
    ELSE LET c == IF upper THEN ToUpper(Head(a)) ELSE ToLower(Head(a))
         IN <<c>> \o CanonLoop(Tail(a), c = "-")

\* textproto.CanonicalMIMEHeaderKey
CanonicalMIMEHeaderKey(key) == CanonLoop(key, TRUE)

\* http.Header.Set
HeaderSet(h, key, value) ==
    LET ck == CanonicalMIMEHeaderKey(key)
    IN [k \in DOMAIN h \cup {ck} |-> IF k = ck THEN <<value>> ELSE h[k]]

\* http.Header.Get
HeaderGet(h, key) ==
    LET ck == CanonicalMIMEHeaderKey(key)
    IN IF ck \in DOMAIN h /\ h[ck] # <<>> THEN h[ck][1] ELSE ""

(***************************************************************************)
(* Records are written with their fields in one fixed order throughout.    *)
(*                                                                         *)
(* Interceptors.  An Interceptor value is one of: nil; a logging           *)
(* interceptor that appends a marker to a shared log before and after it   *)
(* delegates; Header(key, value); BaseURL(baseURL).                        *)
(***************************************************************************)
NoURL == [Path |-> EmptyPath, Scheme |-> "", Host |-> "", RawQuery |-> "", Fragment |-> ""]

NilInterceptor == [key |-> <<>>, value |-> "", kind |-> "nil", marker |-> "", baseURL |-> NoURL]

LoggingInterceptor(m) == [NilInterceptor EXCEPT !.kind = "Log", !.marker = m]

Header(key, value) == [NilInterceptor EXCEPT !.kind = "Header", !.key = key, !.value = value]

BaseURL(baseURL) == [NilInterceptor EXCEPT !.kind = "BaseURL", !.baseURL = baseURL]

\* BaseURL without its test of the request's scheme
BaseURLNoBypass(baseURL, r) ==
    LET joined == [r.URL EXCEPT !.Path = JoinPath(baseURL, r.URL.Path).Path]
    IN [r EXCEPT !.URL = ResolveReference(baseURL, joined)]

\* The request as BaseURL's RoundTripperFunc hands it to next
BaseURLRoundTrip(baseURL, r) ==
    IF r.URL.Scheme # "" THEN r
    ELSE LET joined == [r.URL EXCEPT !.Path = JoinPath(baseURL, r.URL.Path).Path]
         IN [r EXCEPT !.URL = ResolveReference(baseURL, joined)]

\* Header adding a value to those the name has (Header.Add for Header.Set)
HeaderRoundTripAdd(key, value, r) ==
    LET ck == CanonicalMIMEHeaderKey(key)
        h  == r.Header
    IN IF key # <<>>
       THEN [r EXCEPT !.Header =
                [k \in DOMAIN h \cup {ck} |->
                    IF k = ck
                    THEN (IF ck \in DOMAIN h THEN Append(h[ck], value) ELSE <<value>>)
                    ELSE h[k]]]
       ELSE r

\* The request as Header's RoundTripperFunc hands it to next
HeaderRoundTrip(key, value, r) ==
    IF key # <<>> THEN [r EXCEPT !.Header = HeaderSet(r.Header, key, value)] ELSE r

\* What a link of the chain does to the request before it calls next
Before(f, r) ==
    IF f.kind = "Header" THEN HeaderRoundTrip(f.key, f.value, r)
    ELSE IF f.kind = "BaseURL" THEN BaseURLRoundTrip(f.baseURL, r)
    ELSE r

\* A link that answers an error of next with a response of its own
AfterSwallowed(f, out) == IF out = "err" THEN "resp200" ELSE out

\* What a link of the chain returns, given what next returned: each of them
\* returns next's response or error as it is.
After(f, out) == out

\* The loop wrapping in registration order: the last interceptor ends outermost
WrappedInside(f, transport) == transport \o <<f>>

\* t.interceptors[i](transport): the transport that wraps `transport` in f
Wrapped(f, transport) == <<f>> \o transport

\* A loop that wraps in whatever it finds, nil included
CallNeverPanics(f) == FALSE

\* Whether the call t.interceptors[i](transport) panics: f is a nil func value
CallPanics(f) == f.kind = "nil"

\* Use putting the new interceptors in front of the old
Prepended(old, new) == new \o old

\* append(t.interceptors, interceptors...)
Appended(old, new) == old \o new

(***************************************************************************)
(* The values the model draws from.                                        *)
(***************************************************************************)
\* The markers of the logging interceptors
Markers == {"m1", "m2"}

BaseExample == [Path |-> <<"", "am">>, Scheme |-> "http", Host |-> "base.example.com",
                RawQuery |-> "", Fragment |-> ""]

EmptyHeader == [k \in {} |-> <<>>]

\* What a terminal transport returns: a response or an error.
Outcomes == {"resp200", "resp500", "err"}

NoRequest == [Header |-> EmptyHeader, URL |-> NoURL]

\* The interceptors handed to Use in the pipeline specification
Interceptors ==
    {NilInterceptor, Header(<<"a">>, "v"), BaseURL(BaseExample)}
        \cup {LoggingInterceptor(m) : m \in Markers}

\* The requests of the pipeline specification: "/x" and "https://other.example.com/x"
Requests ==
    {[Header |-> EmptyHeader, URL |-> [NoURL EXCEPT !.Path = <<"", "x">>]],
     [Header |-> [k \in {<<"A">>} |-> <<"old">>],
      URL |-> [NoURL EXCEPT !.Scheme = "https", !.Host = "other.example.com",
                            !.Path = <<"", "x">>]]}

(***************************************************************************)
(* The operations.                                                         *)
(***************************************************************************)
\* Pipeline.Use.  It may be called at any time the program runs: between
\* requests, or by an interceptor, a factory or the terminal transport
\* while a request is in flight.
Use(args) ==
    /\ pc # "panic"
    /\ Len(interceptors) + Len(args) <= MaxInterceptors
    /\ Len(calls) < MaxInterceptors
    /\ interceptors' = Appended(interceptors, args)
    /\ calls' = Append(calls, args)
    /\ UNCHANGED <<Transport, pc, i, chain, depth, req, orig, atStart, sent,
                   outcome, result, log>>

\* Pipeline.RoundTrip, up to the start of its loop: the terminal transport is
\* resolved (the chain that wraps nothing yet) and i starts at the last index.
RoundTrip(r) ==
    /\ pc \in {"idle", "done"}
    /\ pc' = "build"
    /\ i' = Len(interceptors)
    /\ chain' = <<>>
    /\ depth' = 0
    /\ req' = r
    /\ orig' = r
    /\ atStart' = interceptors
    /\ sent' = <<>>
    /\ outcome' = "none"
    /\ result' = "none"
    /\ log' = <<>>
    /\ UNCHANGED <<interceptors, Transport, calls>>

\* One pass of RoundTrip's loop.  Calling a nil Interceptor panics.
Wrap ==
    /\ pc = "build"
    /\ i >= 1
    /\ IF CallPanics(interceptors[i])
       THEN pc' = "panic" /\ UNCHANGED <<i, chain>>
       ELSE /\ chain' = Wrapped(interceptors[i], chain)
            /\ i' = i - 1
            /\ UNCHANGED pc
    /\ UNCHANGED <<interceptors, Transport, calls, depth, req, orig, atStart,
                   sent, outcome, result, log>>

\* A dispatch that walks the pipeline's list as it is now
ServingLive == IF pc \in {"down", "up"} THEN interceptors ELSE chain

\* The transport RoundTrip's last line calls: the local variable transport,
\* which nothing but RoundTrip's own loop assigns.
ServingChain == chain

\* RoundTrip's last line: the request is handed to the outermost transport.
Dispatch ==
    /\ pc = "build"
    /\ i = 0
    /\ pc' = "down"
    /\ UNCHANGED <<interceptors, Transport, calls, i, chain, depth, req, orig,
                   atStart, sent, outcome, result, log>>

\* The link the request reaches next runs up to its call of next.RoundTrip.
Enter ==
    /\ pc = "down"
    /\ depth < Len(ServingChain)
    /\ LET f == ServingChain[depth + 1]
       IN /\ req' = Before(f, req)
          /\ log' = IF f.kind = "Log" THEN Append(log, [marker |-> f.marker, ev |-> "pre"]) ELSE log
    /\ depth' = depth + 1
    /\ UNCHANGED <<interceptors, Transport, calls, pc, i, chain, orig, atStart,
                   sent, outcome, result>>

\* The terminal transport (Pipeline.Transport, or http.DefaultTransport when
\* that is nil) performs the request and returns a response or an error.
Terminal ==
    /\ pc = "down"
    /\ depth = Len(ServingChain)
    /\ log' = Append(log, [marker |-> "", ev |-> "terminal"])
    /\ \E o \in Outcomes :
          /\ outcome' = o
          /\ sent' = Append(sent, [req |-> req, out |-> o])
    /\ pc' = "up"
    /\ UNCHANGED <<interceptors, Transport, calls, i, chain, depth, req, orig,
                   atStart, result>>

\* The innermost link still running returns to its caller.
Return ==
    /\ pc = "up"
    /\ depth >= 1
    /\ LET f == ServingChain[depth]
       IN /\ outcome' = After(f, outcome)
          /\ log' = IF f.kind = "Log" THEN Append(log, [marker |-> f.marker, ev |-> "post"]) ELSE log
    /\ depth' = depth - 1
    /\ UNCHANGED <<interceptors, Transport, calls, pc, i, chain, req, orig,
                   atStart, sent, result>>

\* Pipeline.RoundTrip returns what the outermost transport returned.
Finish ==
    /\ pc = "up"
    /\ depth = 0
    /\ result' = outcome
    /\ pc' = "done"
    /\ UNCHANGED <<interceptors, Transport, calls, i, chain, depth, req, orig,
                   atStart, sent, outcome, log>>

Idle ==
    /\ pc = "idle"
    /\ i = 0
    /\ chain = <<>>
    /\ depth = 0
    /\ req = NoRequest
    /\ orig = NoRequest
    /\ atStart = <<>>
    /\ sent = <<>>
    /\ outcome = "none"
    /\ result = "none"
    /\ log = <<>>

\* A new Pipeline: &interceptor.Pipeline{}
Init ==
    /\ interceptors = <<>>
    /\ Transport = "nil"
    /\ calls = <<>>
    /\ Idle

UseAny == \E args \in SeqsUpTo(Interceptors, MaxBatch) : Use(args)

RoundTripAny == \E r \in Requests : RoundTrip(r)

Next ==
    \/ UseAny
    \/ RoundTripAny
    \/ Wrap
    \/ Dispatch
    \/ Enter
    \/ Terminal
    \/ Return
    \/ Finish

Spec == Init /\ [][Next]_vars

(***************************************************************************)
(* BaseURL on its own: a pipeline whose one interceptor is BaseURL(b), as  *)
(* in TestBaseURLInterceptor, over base URLs and request URLs drawn from   *)
(* bounded sets.                                                           *)
(***************************************************************************)
\* The base paths: "", "/", "/am", "/am/", "/a/b" and the relative "a/b"
BasePaths ==
    {EmptyPath, <<"", "">>, <<"", "am">>, <<"", "am", "">>, <<"", "a", "b">>, <<"a", "b">>}

BaseURLs ==
    {[Path |-> p, Scheme |-> "http", Host |-> "base.example.com",
      RawQuery |-> q[1], Fragment |-> q[2]] :
        p \in BasePaths, q \in {<<"", "">>, <<"k=v", "basefrag">>}}

RequestSegments == {"", ".", "..", "x", "%zz"}

RequestPaths == SeqsUpTo(RequestSegments, MaxPathLen + 1) \ {<<>>}

\* What url.Parse yields: a URL with a host has an empty or a rooted path.
RequestURLs ==
    {u \in [Path : RequestPaths, Scheme : {""}, Host : {"", "other.example.com"},
            RawQuery : {"", "a=1"}, Fragment : {"", "frag"}]
           \cup [Path : RequestPaths, Scheme : {"https"}, Host : {"google.com"},
                 RawQuery : {"", "a=1"}, Fragment : {"", "frag"}] :
        u.Host = "" \/ u.Path = EmptyPath \/ HasSlashPrefix(u.Path)}

InitBaseURL ==
    /\ \E b \in BaseURLs :
          /\ interceptors = <<BaseURL(b)>>
          /\ calls = <<<<BaseURL(b)>>>>
    /\ Transport = "mock"
    /\ Idle

\* Each request starts from the pipeline as constructed: RoundTrip keeps
\* nothing of the request before it.
RoundTripURL ==
    /\ pc = "idle"
    /\ \E u \in RequestURLs : RoundTrip([Header |-> EmptyHeader, URL |-> u])

NextBaseURL ==
    \/ RoundTripURL
    \/ Wrap
    \/ Dispatch
    \/ Enter
    \/ Terminal
    \/ Return
    \/ Finish

SpecBaseURL == InitBaseURL /\ [][NextBaseURL]_vars

(***************************************************************************)
(* Header on its own: a pipeline whose one interceptor is Header(k, v),    *)
(* as in TestHeaderInterceptor, over names, values and request headers     *)
(* drawn from bounded sets.                                                *)
(***************************************************************************)
HeaderKeys == SeqsUpTo(KeyChars, MaxKeyLen)

HeaderValues == {"", "v"}

\* The request headers: none; A with one value; A with two; A-A and Aa; and
\* an entry stored under the non-canonical name "a".
RequestHeaders ==
    {EmptyHeader,
     [k \in {<<"A">>} |-> <<"old">>],
     [k \in {<<"A">>} |-> <<"old", "older">>],
     [k \in {<<"A", "a">>, <<"A", "-", "A">>} |-> <<"old">>],
     [k \in {<<"a">>, <<"A", "a", "a">>} |-> <<"raw">>]}

ExampleURL == [NoURL EXCEPT !.Scheme = "http", !.Host = "example.com"]

InitHeader ==
    /\ \E k \in HeaderKeys, v \in HeaderValues :
          /\ interceptors = <<Header(k, v)>>
          /\ calls = <<<<Header(k, v)>>>>
    /\ Transport = "mock"
    /\ Idle

RoundTripHeader == \E h \in RequestHeaders : RoundTrip([Header |-> h, URL |-> ExampleURL])

NextHeader ==
    \/ RoundTripHeader
    \/ Wrap
    \/ Dispatch
    \/ Enter
    \/ Terminal
    \/ Return
    \/ Finish

SpecHeader == InitHeader /\ [][NextHeader]_vars

(***************************************************************************)
(* The claims.                                                             *)
(***************************************************************************)
AllOfKind(fs, kinds) == \A k \in 1..Len(fs) : fs[k].kind \in kinds

IsLog(f) == f.kind = "Log"

\* The log of one request through the logging interceptors of fs: their
\* markers before delegating in the order of fs, the terminal, and their
\* markers after delegating in the reverse order.
OnionLog(fs) ==
    LET ls == SelectSeq(fs, IsLog)
        n  == Len(ls)
    IN [k \in 1..n |-> [marker |-> ls[k].marker, ev |-> "pre"]]
         \o <<[marker |-> "", ev |-> "terminal"]>>
         \o [k \in 1..n |-> [marker |-> ls[n + 1 - k].marker, ev |-> "post"]]

Ran == pc \in {"up", "done"}

TheBase == interceptors[1].baseURL

\* C1: a RoundTrip through N >= 1 logging interceptors leaves the log
\* pre(i1), ..., pre(iN), terminal, post(iN), ..., post(i1).
C1_OnionOrder ==
    (pc = "done" /\ Len(atStart) >= 1 /\ AllOfKind(atStart, {"Log"}))
        => log = OnionLog(atStart)

C1_Witness ==
    /\ pc = "done"
    /\ Len(atStart) = 3
    /\ AllOfKind(atStart, {"Log"})
    /\ atStart[1].marker # atStart[3].marker
    /\ Len(log) = 7

\* C2: a request whose URL has a scheme passes BaseURL as it is, and the next
\* transport is called once, with that request.
C2_Bypass ==
    orig.URL.Scheme # ""
        => /\ req = orig
           /\ Ran => (Len(sent) = 1 /\ sent[1].req = orig)

C2_Witness ==
    /\ pc = "done"
    /\ orig.URL.Scheme # ""
    /\ orig.URL.Path = <<"", "..", "x">>
    /\ orig.URL.RawQuery # ""
    /\ TheBase.Path = <<"", "am">>
    /\ TheBase.RawQuery # ""

\* The segments of a path: what lies between its slashes
Segments(p) == SelectSeq(p, LAMBDA seg : seg # "")

RECURSIVE StackNorm(_, _)
\* One pass over segs with a stack: "." is dropped, ".." pops one segment
\* and is discarded when the stack is empty.
StackNorm(segs, stack) ==
    IF segs = <<>> THEN stack
    ELSE IF Head(segs) = "." THEN StackNorm(Tail(segs), stack)
    ELSE IF Head(segs) = ".."
         THEN StackNorm(Tail(segs), IF stack = <<>> THEN <<>> ELSE Front(stack))
    ELSE StackNorm(Tail(segs), Append(stack, Head(segs)))

\* C3: for a request URL without a scheme, the path the next transport sees is
\* the one-pass stack normalisation of the base path's segments followed by
\* the request path's segments.
C3_PathJoin ==
    (Ran /\ orig.URL.Scheme = "")
        => Segments(sent[1].req.URL.Path)
             = StackNorm(Segments(TheBase.Path) \o Segments(orig.URL.Path), <<>>)

\* C4: for a request URL without a scheme, the URL the next transport sees has
\* the scheme and the host of the base URL.
C4_SchemeAndHost ==
    (Ran /\ orig.URL.Scheme = "")
        => /\ sent[1].req.URL.Scheme = TheBase.Scheme
           /\ sent[1].req.URL.Host = TheBase.Host

\* C5: the URL the next transport sees has the query and the fragment of the
\* original request URL, on the bypass and on the rewrite.
C5_QueryAndFragment ==
    Ran => /\ sent[1].req.URL.RawQuery = orig.URL.RawQuery
           /\ sent[1].req.URL.Fragment = orig.URL.Fragment

\* Two header names that differ at most in the case of their letters
SameName(k1, k2) ==
    /\ Len(k1) = Len(k2)
    /\ \A n \in 1..Len(k1) : ToLower(k1[n]) = ToLower(k2[n])

C6_WitnessEmptyKey ==
    /\ pc = "done"
    /\ interceptors[1].key = <<>>
    /\ orig.Header # EmptyHeader

HasNil(fs) == \E k \in 1..Len(fs) : fs[k].kind = "nil"

\* C7 as claimed: no RoundTrip crashes because of a nil entry.
C7_NilPassesThrough == pc # "panic"

\* C7 as amended: Use accepts a nil interceptor, and a RoundTrip on a pipeline
\* whose list holds a nil entry panics in its wrapping loop: it hands the
\* request to no interceptor and to no transport, and returns nothing.
C7_NilPanics ==
    /\ pc \in {"down", "up", "done"} => ~HasNil(atStart)
    /\ pc = "panic" => /\ HasNil(atStart)
                       /\ interceptors[i].kind = "nil"
                       /\ ~HasNil(chain)
                       /\ sent = <<>> /\ log = <<>> /\ result = "none"

C7_Witness ==
    /\ pc = "panic"
    /\ Len(atStart) = 3
    /\ atStart[2].kind = "nil"
    /\ atStart[3].kind = "Log"
    /\ Len(calls) >= 1

\* C8: through any list of Header and BaseURL interceptors a RoundTrip calls
\* the terminal transport once and returns what it returned; with no
\* interceptor the terminal transport receives the request as it was.
C8_TerminalOutcome ==
    AllOfKind(atStart, {"Header", "BaseURL"}) =>
        /\ pc # "panic"
        /\ Len(sent) <= 1
        /\ Ran => (Len(sent) = 1 /\ outcome = sent[1].out)
        /\ pc = "done" => (Len(sent) = 1 /\ result = sent[1].out /\ result \in Outcomes)
        /\ (Ran /\ atStart = <<>>) => sent[1].req = orig

C8_Witness ==
    /\ pc = "done"
    /\ Len(atStart) = 2
    /\ atStart[1].kind = "Header"
    /\ atStart[2].kind = "BaseURL"
    /\ result = "err"

C8_WitnessEmpty ==
    /\ pc = "done"
    /\ atStart = <<>>
    /\ result = "resp500"

\* C9: the pipeline's interceptors are the arguments of the Use calls so far,
\* concatenated in call order.
C9_UseAppends == interceptors = Flatten(calls)

C9_Witness ==
    /\ Len(calls) = 2
    /\ Len(calls[1]) = 1
    /\ Len(calls[2]) = 2
    /\ calls[1][1] = calls[2][2]
    /\ calls[1][1] # calls[2][1]
    /\ Len(interceptors) = 3

\* C10: the chain that serves a request is made of the interceptors registered
\* when RoundTrip was invoked, whatever Use adds while the request is in
\* flight; a later RoundTrip starts from the list as it then is.
C10_ChainFixedAtInvocation ==
    /\ pc = "build" => /\ i <= Len(atStart)
                       /\ chain = SubSeq(atStart, i + 1, Len(atStart))
    /\ pc \in {"down", "up", "done"} => chain = atStart
    /\ pc = "done" => log = OnionLog(atStart)
    /\ pc # "idle" => /\ Len(atStart) <= Len(interceptors)
                      /\ atStart = SubSeq(interceptors, 1, Len(atStart))

C10_Witness ==
    /\ pc = "done"
    /\ Len(atStart) = 1
    /\ atStart[1].kind = "Log"
    /\ Len(interceptors) = 3
    /\ interceptors[2].kind = "Log"
    /\ Len(log) = 3

====
